---- MODULE Spec2Model ----
(***************************************************************************)
(* Model of src/src/screens/GoalDetailScreen.tsx: the two React screens    *)
(* GoalDetailScreen and GoalDefineScreen, their async operations against   *)
(* the goals REST API, and the inline formatting of goal fields.           *)
(*                                                                         *)
(* JavaScript values are modelled explicitly: a primitive is a record      *)
(* [t, s, n] (type tag, characters of a string, a number in thousandths); *)
(* an object is a function from its own keys to values.  Strings are       *)
(* sequences of one-character strings so that parseFloat, Number and       *)
(* toFixed are computed character by character as the engine does.         *)
(***************************************************************************)
EXTENDS Integers, Sequences, FiniteSets, TLC

(***************************************************************************)
(* JavaScript values                                                       *)
(***************************************************************************)

\* Numbers carry three decimal places: n is the value times Scale.
Scale == 10 * 10 * 10

Undefined == [t |-> "undefined", s |-> <<>>, n |-> 0]

Null == [t |-> "null", s |-> <<>>, n |-> 0]

NaN == [t |-> "NaN", s |-> <<>>, n |-> 0]

Str(chars) == [t |-> "string", s |-> chars, n |-> 0]

Num(m) == [t |-> "number", s |-> <<>>, n |-> m]

Bool(b) == [t |-> "boolean", s |-> <<>>, n |-> IF b THEN 1 ELSE 0]

\* A string given by a literal and never taken apart (alert texts, error
\* messages, route names): kept as one chunk.
Text(literal) == Str(<<literal>>)

\* A JSON array with the given items.
Array(items) == [t |-> "array", s |-> <<>>, n |-> 0, items |-> items]

\* Tagged values (primitives and arrays) carry the field t; plain objects
\* never have a key named t.
IsPrimitive(v) == "t" \in DOMAIN v

IsObject(v) == ~IsPrimitive(v)

\* obj.key: property access; throws a TypeError on undefined and null
\* (callers test CanRead first), yields undefined for a key the object lacks.
CanRead(v) == IsObject(v) \/ v.t \notin {"undefined", "null"}

\* arr[0]: the first item of an array, undefined when it has none or when
\* the value is not an array.
First(v) ==
  IF IsPrimitive(v) /\ v.t = "array" /\ Len(v.items) > 0 THEN v.items[1] ELSE Undefined

\* The object without the key (delete obj.key).
Without(obj, key) == [k \in DOMAIN obj \ {key} |-> obj[k]]

\* The object with key set to value.
With(obj, key, value) ==
  [k \in DOMAIN obj \cup {key} |-> IF k = key THEN value ELSE obj[k]]

\* JSON.parse(JSON.stringify(obj)) for a flat object: what the receiver of
\* the body reads.  Keys holding undefined are dropped, NaN is written null.
Stringify(obj) ==
  [k \in {k \in DOMAIN obj : obj[k] # Undefined} |->
     IF IsPrimitive(obj[k]) /\ obj[k].t = "NaN" THEN Null ELSE obj[k]]

Get(obj, key) ==
  IF IsObject(obj) /\ key \in DOMAIN obj THEN obj[key] ELSE Undefined

\* ToBoolean: undefined, null, "", 0, NaN and false are falsy.
Truthy(v) ==
  IF IsObject(v) THEN TRUE
  ELSE CASE v.t = "undefined" -> FALSE
         [] v.t = "null"      -> FALSE
         [] v.t = "NaN"       -> FALSE
         [] v.t = "string"    -> v.s # <<>>
         [] v.t = "number"    -> v.n # 0
         [] v.t = "boolean"   -> v.n = 1
         [] v.t = "array"     -> TRUE

\* a || b
Or(a, b) == IF Truthy(a) THEN a ELSE b

Digits == {"0", "1", "2", "3", "4", "5", "6", "7", "8", "9"}

DigitVal(c) ==
  CASE c = "0" -> 0 [] c = "1" -> 1 [] c = "2" -> 2 [] c = "3" -> 3
    [] c = "4" -> 4 [] c = "5" -> 5 [] c = "6" -> 6 [] c = "7" -> 7
    [] c = "8" -> 8 [] c = "9" -> 9

DigitChar(d) ==
  CASE d = 0 -> "0" [] d = 1 -> "1" [] d = 2 -> "2" [] d = 3 -> "3"
    [] d = 4 -> "4" [] d = 5 -> "5" [] d = 6 -> "6" [] d = 7 -> "7"
    [] d = 8 -> "8" [] d = 9 -> "9"

WhiteSpace == {" "}

RECURSIVE TrimLeft(_)
TrimLeft(s) ==
  IF s # <<>> /\ Head(s) \in WhiteSpace THEN TrimLeft(Tail(s)) ELSE s

RECURSIVE TrimRight(_)
TrimRight(s) ==
  IF s # <<>> /\ s[Len(s)] \in WhiteSpace
  THEN TrimRight(SubSeq(s, 1, Len(s) - 1)) ELSE s

\* Length of the longest prefix of s made of decimal digits.
RECURSIVE DigitRun(_)
DigitRun(s) ==
  IF s # <<>> /\ Head(s) \in Digits THEN 1 + DigitRun(Tail(s)) ELSE 0

\* Value of a digit string as an integer.
RECURSIVE IntOf(_)
IntOf(s) ==
  IF s = <<>> THEN 0 ELSE IntOf(SubSeq(s, 1, Len(s) - 1)) * 10 + DigitVal(s[Len(s)])

\* Value of the fraction digits frac in thousandths (digits past the third
\* are below the model's resolution).
FracOf(frac) ==
  LET d(i) == IF i <= Len(frac) THEN DigitVal(frac[i]) ELSE 0
  IN  d(1) * 100 + d(2) * 10 + d(3)

\* The longest prefix of s that is a StrDecimalLiteral (sign, digits, an
\* optional fraction), as [len, val]; len = 0 when there is none.
DecimalPrefix(s) ==
  LET signed == s # <<>> /\ Head(s) \in {"-", "+"}
      body   == IF signed THEN Tail(s) ELSE s
      ni     == DigitRun(body)
      rest   == SubSeq(body, ni + 1, Len(body))
      dot    == rest # <<>> /\ Head(rest) = "."
      nf     == IF dot THEN DigitRun(Tail(rest)) ELSE 0
      usedot == dot /\ (ni > 0 \/ nf > 0)
      mag    == IntOf(SubSeq(body, 1, ni)) * Scale
                  + (IF usedot THEN FracOf(SubSeq(Tail(rest), 1, nf)) ELSE 0)
      blen   == ni + (IF usedot THEN 1 + nf ELSE 0)
  IN  IF blen = 0 THEN [len |-> 0, val |-> 0]
      ELSE [len |-> blen + (IF signed THEN 1 ELSE 0),
            val |-> IF signed /\ Head(s) = "-" THEN 0 - mag ELSE mag]

\* Characters of a non-negative integer.
RECURSIVE NatChars(_)
NatChars(k) ==
  IF k < 10 THEN <<DigitChar(k)>> ELSE NatChars(k \div 10) \o <<DigitChar(k % 10)>>

\* Number.prototype.toFixed(digits) for digits in 0..3, as characters.
ToFixedChars(m, digits) ==
  LET unit  == CASE digits = 0 -> 1000 [] digits = 1 -> 100
                 [] digits = 2 -> 10   [] digits = 3 -> 1
      abs   == IF m < 0 THEN 0 - m ELSE m
      q     == (abs + (unit \div 2)) \div unit
      pow   == Scale \div unit
      ip    == q \div pow
      fp    == q % pow
      fchars == CASE digits = 0 -> <<>>
                  [] digits = 1 -> <<".", DigitChar(fp)>>
                  [] digits = 2 -> <<".", DigitChar(fp \div 10), DigitChar(fp % 10)>>
                  [] digits = 3 -> <<".", DigitChar(fp \div 100),
                                     DigitChar((fp \div 10) % 10), DigitChar(fp % 10)>>
  IN  (IF m < 0 THEN <<"-">> ELSE <<>>) \o NatChars(ip) \o fchars

\* ToString of a finite number: shortest decimal form.
NumberChars(m) ==
  LET abs == IF m < 0 THEN 0 - m ELSE m
      d   == CASE abs % 1000 = 0 -> 0 [] abs % 100 = 0 -> 1
               [] abs % 10 = 0 -> 2 [] OTHER -> 3
  IN  ToFixedChars(m, d)

\* ToString(v) for a primitive.
ToStringChars(v) ==
  CASE v.t = "undefined" -> <<"u", "n", "d", "e", "f", "i", "n", "e", "d">>
    [] v.t = "null"      -> <<"n", "u", "l", "l">>
    [] v.t = "NaN"       -> <<"N", "a", "N">>
    [] v.t = "string"    -> v.s
    [] v.t = "number"    -> NumberChars(v.n)
    [] v.t = "boolean"   -> IF v.n = 1 THEN <<"t", "r", "u", "e">>
                            ELSE <<"f", "a", "l", "s", "e">>

\* parseFloat(v): ToString, skip leading white space, take the longest
\* decimal prefix; NaN when there is none.
parseFloat(v) ==
  LET p == DecimalPrefix(TrimLeft(ToStringChars(v)))
  IN  IF p.len = 0 THEN NaN ELSE Num(p.val)

\* Number(v): ToNumber.  A string converts only as a whole (trimmed); the
\* empty string and null convert to 0.
ToNumber(v) ==
  CASE v.t = "undefined" -> NaN
    [] v.t = "null"      -> Num(0)
    [] v.t = "NaN"       -> NaN
    [] v.t = "number"    -> v
    [] v.t = "boolean"   -> Num(v.n * Scale)
    [] v.t = "string"    ->
         LET body == TrimRight(TrimLeft(v.s))
             p    == DecimalPrefix(body)
         IN  IF body = <<>> THEN Num(0)
             ELSE IF p.len = Len(body) /\ p.len > 0 THEN Num(p.val) ELSE NaN

\* The global isNaN(v): ToNumber first.
isNaN(v) == ToNumber(v).t = "NaN"

\* Whether v.toFixed(...) can be called: only numbers have the method; on
\* a string, a boolean, null or undefined the call throws a TypeError.
HasToFixed(v) == IsPrimitive(v) /\ v.t \in {"number", "NaN"}

\* v.toFixed(digits) for a number v.
toFixed(v, digits) ==
  IF v.t = "NaN" THEN Str(<<"N", "a", "N">>) ELSE Str(ToFixedChars(v.n, digits))

\* a * k for a primitive a and an integer k.
Times(a, k) ==
  LET x == ToNumber(a) IN IF x.t = "NaN" THEN NaN ELSE Num(x.n * k)

(***************************************************************************)
(* Rendering of goal fields (the JSX expressions of both screens)          *)
(***************************************************************************)

\* What a JSX expression yields: the text shown, or a thrown TypeError
\* (which aborts the render of the whole screen).
Shown(chars) == [threw |-> FALSE, text |-> chars]

Thrown == [threw |-> TRUE, text |-> <<>>]

ZeroCurrency == <<"R", "$", "0", ".", "0", "0">>

NotAvailable == <<"N", "/", "A">>

\* GoalDetailScreen, patrimony and my_patrimony:
\*   x && !isNaN(parseFloat(x)) ? `R$${parseFloat(x).toFixed(2)}` : "R$0.00"
DetailCurrencyText(x) ==
  IF Truthy(x) /\ ~isNaN(parseFloat(x))
  THEN Shown(<<"R", "$">> \o toFixed(parseFloat(x), 2).s)
  ELSE Shown(ZeroCurrency)

\* GoalDetailScreen, monthly_aport (twice on the screen):
\*   x && !isNaN(x) ? x.toFixed(2) : "R$0.00"
DetailAportText(x) ==
  IF Truthy(x) /\ ~isNaN(x)
  THEN IF HasToFixed(x) THEN Shown(toFixed(x, 2).s) ELSE Thrown
  ELSE Shown(ZeroCurrency)

\* GoalDetailScreen, dividends and rate:
\*   x && !isNaN(parseFloat(x)) ? x : "N/A"
DetailRatioText(x) ==
  IF Truthy(x) /\ ~isNaN(parseFloat(x))
  THEN Shown(ToStringChars(x))
  ELSE Shown(NotAvailable)

\* GoalDetailScreen, status label.
DetailStatusText(x) ==
  IF Truthy(x)
  THEN Shown(<<"C", "o", "n", "c", "l", "u", "i", "d", "a">>)
  ELSE Shown(<<"E", "m", " ", "A", "n", "d", "a", "m", "e", "n", "t", "o">>)

\* GoalDetailScreen, timeRemaining: Number(x).toFixed(1).
DetailTimeText(x) == Shown(toFixed(ToNumber(x), 1).s)

\* GoalDefineScreen, patrimony, my_patrimony and time_desired:
\*   const p = parseFloat(x); if (isNaN(p)) return "N/A"; return p.toFixed(2)
DefineParsedText(x) ==
  LET p == parseFloat(x)
  IN  IF isNaN(p) THEN Shown(NotAvailable) ELSE Shown(toFixed(p, 2).s)

\* GoalDefineScreen, dividends:  isNaN(x) ? "N/A" : x.toFixed(2)
DefineDividendsText(x) ==
  IF isNaN(x) THEN Shown(NotAvailable)
  ELSE IF HasToFixed(x) THEN Shown(toFixed(x, 2).s) ELSE Thrown

\* GoalDefineScreen, rate:  { isNaN(x) ? "N/A" : (x * 100).toFixed(2) }%
DefineRateText(x) ==
  IF isNaN(x) THEN Shown(NotAvailable \o <<"%">>)
  ELSE Shown(toFixed(Times(x, 100), 2).s \o <<"%">>)

CurrencyFields == {"patrimony", "my_patrimony", "monthly_aport"}

RatioFields == {"dividends", "rate"}

FormattedFields == CurrencyFields \cup RatioFields \cup {"status", "time_desired"}

\* The texts GoalDetailScreen shows for goal g, by field.
DetailRender(g) ==
  [f \in FormattedFields |->
     CASE f \in {"patrimony", "my_patrimony"} -> DetailCurrencyText(Get(g, f))
       [] f = "monthly_aport"                 -> DetailAportText(Get(g, f))
       [] f \in RatioFields                   -> DetailRatioText(Get(g, f))
       [] f = "status"                        -> DetailStatusText(Get(g, f))
       [] f = "time_desired"                  -> DetailTimeText(Get(g, f))]

\* The fields GoalDefineScreen shows (it shows neither monthly_aport nor status).
DefineFields == {"patrimony", "my_patrimony", "dividends", "rate", "time_desired"}

\* The texts GoalDefineScreen shows for goal g, by field.
DefineRender(g) ==
  [f \in DefineFields |->
     CASE f \in {"patrimony", "my_patrimony", "time_desired"} -> DefineParsedText(Get(g, f))
       [] f = "dividends"                                     -> DefineDividendsText(Get(g, f))
       [] f = "rate"                                          -> DefineRateText(Get(g, f))]

(***************************************************************************)
(* The screens as a state machine                                          *)
(***************************************************************************)

\* Most operations one behaviour starts from outside (focus events that
\* fetch, button presses, the mount effect).  The re-fetch that finalizeGoal
\* and reopenGoal start themselves is not counted.
MaxOps == 2

\* Most focus events one behaviour delivers to GoalDetailScreen.
MaxFocus == 2

VARIABLES
  mounted,      \* the component this behaviour follows: GoalDetail or GoalDefine
  route,        \* the route the navigator shows
  params,       \* route.params of the mounted component
  goalData,     \* useState goalData of the mounted component
  loading,      \* useState loading of the mounted component
  calls,        \* the async operations started so far, in order of their start
  server,       \* the API's record of the goal: [exists, status]
  faults,       \* whether the API or the transport has strayed from the contract
  focusEvents,  \* how many times the focus effect of GoalDetailScreen has run
  rendered      \* the texts the last render produced, by field

vars == <<mounted, route, params, goalData, loading, calls, server, faults, focusEvents, rendered>>

\* The goal the API stores, and an identifier it does not know.
KnownId == Str(<<"g", "1">>)

UnknownId == Str(<<"g", "9">>)

GoalIds == {KnownId, UnknownId}

\* The Goal the API returns: only the fields the operations read.
GoalOf(id, status) == [id |-> id, status |-> Bool(status)]

\* Alert.alert(title, message)
Alert(title, message) == [title |-> title, message |-> message]

FailMessage(op) ==
  CASE op = "GET"      -> Text("Falha ao buscar os dados da meta.")
    [] op = "DELETE"   -> Text("Falha ao deletar a meta.")
    [] op = "finalize" -> Text("Falha ao finalizar a meta.")
    [] op = "reopen"   -> Text("Falha ao reabrir a meta.")
    [] op = "define"   -> Text("Falha ao definir a meta.")
    [] op = "create"   -> Text("Falha ao criar a meta.")

SuccessMessage(op) ==
  CASE op = "finalize" -> Text("Meta finalizada com sucesso.")
    [] op = "reopen"   -> Text("Meta reaberta com sucesso.")

\* new Error(message), and the errors the runtime throws.
Error(message) == [message |-> message]

NetworkError == Error(Text("Network request failed"))

SyntaxError == Error(Text("JSON Parse error"))

TypeError == Error(Text("undefined is not an object"))

\* fetch(url, {method, body}): a request on the wire.  pc is the await the
\* operation is suspended at (fetch, text, json) or done; net tells whether
\* the server has handled the request; resp is the response once it has.
NoResponse == [ok |-> FALSE, json |-> FALSE, data |-> Undefined]

NewCall(op, id, body, origin, parent) ==
  [op |-> op, id |-> id, body |-> body, origin |-> origin, parent |-> parent,
   pc |-> "fetch", net |-> "sent", resp |-> NoResponse,
   result |-> "pending", alerts |-> <<>>, navs |-> <<>>]

\* The component state an operation reads and writes, threaded through the
\* statements of a handler in program order.
Now == [calls |-> calls, goalData |-> goalData, loading |-> loading, route |-> route]

Becomes(st) ==
  /\ calls' = st.calls
  /\ goalData' = st.goalData
  /\ loading' = st.loading
  /\ route' = st.route

setLoading(st, flag) == [st EXCEPT !.loading = flag]

setGoalData(st, value) == [st EXCEPT !.goalData = value]

\* Alert.alert(title, message) raised by operation i.
alert(st, i, title, message) ==
  [st EXCEPT !.calls[i].alerts = Append(@, Alert(title, message))]

\* navigation.navigate(name, p) called by operation i.
navigate(st, i, name, p) ==
  [st EXCEPT !.route = name,
             !.calls[i].navs = Append(@, [to |-> name, params |-> p])]

\* fetch(...) issued by a new operation, which suspends at the await.
Fetch(st, op, id, body, origin, parent) ==
  [st EXCEPT !.calls = Append(@, NewCall(op, id, body, origin, parent))]

\* Operation i suspends at its next await (response.text() or .json()).
Suspend(st, i, at) == [st EXCEPT !.calls[i].pc = at]

\* Operation i returns; of its response only the status it saw is kept.
Return(st, i, result) ==
  [st EXCEPT !.calls[i].pc = "done", !.calls[i].result = result,
             !.calls[i].net = "closed",
             !.calls[i].resp = [NoResponse EXCEPT !.ok = st.calls[i].resp.ok]]

(***************************************************************************)
(* GoalDetailScreen                                                        *)
(***************************************************************************)

\* CaughtThenFinally without its finally block.
CaughtWithoutFinally(st, i) ==
  Return(alert(st, i, Text("Erro"), FailMessage(st.calls[i].op)), i, "failed")

\* catch and finally of fetchGoalData, deleteGoal, finalizeGoal, reopenGoal
\* and of the define effect: the operation's alert, then setLoading(false).
CaughtThenFinally(st, i) ==
  LET s1 == alert(st, i, Text("Erro"), FailMessage(st.calls[i].op))
      s2 == setLoading(s1, FALSE)
  IN  Return(s2, i, "failed")

\* fetchGoalData up to its first await: setLoading(true), then the GET.
fetchGoalData(st, origin, parent) ==
  Fetch(setLoading(st, TRUE), "GET", params.goalId, Null, origin, parent)

\* fetchGoalData resumed with the response of the GET.
fetchGoalDataResponse(st, i) ==
  IF ~st.calls[i].resp.ok THEN Suspend(st, i, "text") ELSE Suspend(st, i, "json")

\* fetchGoalDataBody storing data[0] only while no goal is held.
fetchGoalDataBodyKeepsFirst(st, i) ==
  LET c == st.calls[i]
      s1 == IF Truthy(st.goalData) THEN st ELSE setGoalData(st, First(c.resp.data))
  IN  IF c.pc = "json" /\ c.resp.json /\ CanRead(c.resp.data)
      THEN Return(setLoading(s1, FALSE), i, "ok")
      ELSE CaughtThenFinally(st, i)

\* fetchGoalData resumed with the body: after response.text() it throws;
\* after response.json() it stores data[0], or catches what json() or the
\* index threw; finally setLoading(false).
fetchGoalDataBody(st, i) ==
  LET c == st.calls[i]
  IN  IF c.pc = "json" /\ c.resp.json /\ CanRead(c.resp.data)
      THEN Return(setLoading(setGoalData(st, First(c.resp.data)), FALSE), i, "ok")
      ELSE CaughtThenFinally(st, i)

\* deleteGoal, finalizeGoal, reopenGoal up to the await: setLoading(true)
\* and the request.
Mutate(st, op) ==
  Fetch(setLoading(st, TRUE), op, params.goalId, Null, "press", 0)

\* deleteGoalResponse navigating before it looks at the status.
deleteGoalNavigatesFirst(st, i) ==
  LET s1 == navigate(st, i, "Metas", Undefined)
  IN  IF ~st.calls[i].resp.ok THEN Suspend(s1, i, "text")
      ELSE Return(setLoading(s1, FALSE), i, "ok")

\* deleteGoal resumed with the response of the DELETE.
deleteGoalResponse(st, i) ==
  IF ~st.calls[i].resp.ok THEN Suspend(st, i, "text")
  ELSE Return(setLoading(navigate(st, i, "Metas", Undefined), FALSE), i, "ok")

\* finalizeGoalResponse re-fetching before it looks at the status.
finalizeGoalRefetchesFirst(st, i) ==
  LET op == st.calls[i].op
      s1 == fetchGoalData(st, op, i)
  IN  IF ~st.calls[i].resp.ok THEN Suspend(s1, i, "text")
      ELSE Return(setLoading(alert(s1, i, Text("Sucesso"), SuccessMessage(op)), FALSE), i, "ok")

\* finalizeGoalResponse flipping the status of the goal it holds before the
\* re-fetch answers.
finalizeGoalSetsStatus(st, i) ==
  IF ~st.calls[i].resp.ok THEN Suspend(st, i, "text")
  ELSE LET op == st.calls[i].op
           s0 == setGoalData(st, With(st.goalData, "status", Bool(op = "finalize")))
           s1 == fetchGoalData(s0, op, i)
           s2 == alert(s1, i, Text("Sucesso"), SuccessMessage(op))
       IN  Return(setLoading(s2, FALSE), i, "ok")

\* finalizeGoal and reopenGoal resumed with the response of the POST: the
\* re-fetch is started and not awaited, the success alert is raised, and the
\* finally block clears loading.
finalizeGoalResponse(st, i) ==
  IF ~st.calls[i].resp.ok THEN Suspend(st, i, "text")
  ELSE LET op == st.calls[i].op
           s1 == fetchGoalData(st, op, i)
           s2 == alert(s1, i, Text("Sucesso"), SuccessMessage(op))
       IN  Return(setLoading(s2, FALSE), i, "ok")

(***************************************************************************)
(* GoalDefineScreen                                                        *)
(***************************************************************************)

\* The useEffect of GoalDefineScreen up to its await: POST /api/gemini/define.
defineEffect(st) ==
  Fetch(st, "define", Null, Stringify(params), "mount", 0)

\* The define effect resumed with the response: a non-success status throws
\* at once (the body is not read).
defineResponse(st, i) ==
  IF ~st.calls[i].resp.ok THEN CaughtThenFinally(st, i) ELSE Suspend(st, i, "json")

\* The define effect resumed with the parsed body: setGoalData(data).
defineBody(st, i) ==
  LET c == st.calls[i]
  IN  IF c.resp.json
      THEN Return(setLoading(setGoalData(st, c.resp.data), FALSE), i, "ok")
      ELSE CaughtThenFinally(st, i)

\* handleCreateGoal: the copy of the draft that is sent.
DataToSend(draft) ==
  IF Truthy(Get(draft, "monthly_aport")) THEN Without(draft, "monthly_aport") ELSE draft

\* handleCreateGoal up to its await: POST /api/goals with the copy.
handleCreateGoal(st) ==
  Fetch(st, "create", Null, Stringify(DataToSend(st.goalData)), "press", 0)

\* The catch block of handleCreateGoal: the error's message, or the fallback.
createCaught(st, i, error) ==
  Return(alert(st, i, Text("Erro"), Or(error.message, FailMessage("create"))),
         i, "failed")

\* handleCreateGoal resumed with the response: both branches read the body
\* as JSON.
createResponse(st, i) == Suspend(st, i, "json")

\* handleCreateGoal resumed with the parsed body.
createBody(st, i) ==
  LET c == st.calls[i]
      d == c.resp.data
  IN  IF ~c.resp.json THEN createCaught(st, i, SyntaxError)
      ELSE IF ~c.resp.ok
      THEN IF ~CanRead(d) THEN createCaught(st, i, TypeError)
           ELSE createCaught(st, i, Error(Or(Get(d, "message"), Text("Failed to create goal"))))
      ELSE IF ~CanRead(d) \/ ~CanRead(Get(d, "goal_id")) THEN createCaught(st, i, TypeError)
      ELSE Return(navigate(st, i, "GoalCreatePlan",
                           [goalId |-> Get(Get(d, "goal_id"), "id")]), i, "ok")

\* fetch() rejected, or reading the body rejected: the catch block runs.  A
\* response still on its way when fetch() rejects is never seen.
Rejected(st, i) ==
  LET s0 == IF st.calls[i].pc = "fetch" THEN [st EXCEPT !.calls[i].resp = NoResponse] ELSE st
  IN  IF s0.calls[i].op = "create" THEN createCaught(s0, i, NetworkError)
      ELSE CaughtThenFinally(s0, i)

\* The continuation that runs when fetch() of operation i resolves.
Response(st, i) ==
  LET op == st.calls[i].op
  IN  CASE op = "GET"                    -> fetchGoalDataResponse(st, i)
        [] op = "DELETE"                 -> deleteGoalResponse(st, i)
        [] op \in {"finalize", "reopen"} -> finalizeGoalResponse(st, i)
        [] op = "define"                 -> defineResponse(st, i)
        [] op = "create"                 -> createResponse(st, i)

\* The continuation that runs when response.text() or .json() resolves.
Body(st, i) ==
  LET op == st.calls[i].op
  IN  CASE op = "GET"    -> fetchGoalDataBody(st, i)
        [] op = "define" -> defineBody(st, i)
        [] op = "create" -> createBody(st, i)
        [] OTHER         -> CaughtThenFinally(st, i)

(***************************************************************************)
(* The API (fortuna-api.onrender.com), as far as the screens can tell      *)
(***************************************************************************)

Ok(data) == [ok |-> TRUE, json |-> TRUE, data |-> data]

NotOk(data) == [ok |-> FALSE, json |-> TRUE, data |-> data]

\* A response whose body is not JSON.
Garbled(ok) == [ok |-> ok, json |-> FALSE, data |-> Undefined]

Found(c) == server.exists /\ c.id = KnownId

\* The monthly contribution the API computes for a draft.
ComputedAport == Num(500 * Scale)

\* What the API answers when it honours its contract, and what it stores then.
Honoured(c) ==
  CASE c.op = "GET" ->
         [resp |-> IF Found(c) THEN Ok(Array(<<GoalOf(c.id, server.status)>>))
                   ELSE NotOk(Null),
          server |-> server]
    [] c.op = "DELETE" ->
         IF Found(c) THEN [resp |-> Ok(Undefined), server |-> [server EXCEPT !.exists = FALSE]]
         ELSE [resp |-> NotOk(Null), server |-> server]
    [] c.op = "finalize" ->
         IF Found(c) THEN [resp |-> Ok(Undefined), server |-> [server EXCEPT !.status = TRUE]]
         ELSE [resp |-> NotOk(Null), server |-> server]
    [] c.op = "reopen" ->
         IF Found(c) THEN [resp |-> Ok(Undefined), server |-> [server EXCEPT !.status = FALSE]]
         ELSE [resp |-> NotOk(Null), server |-> server]
    [] c.op = "define" ->
         [resp |-> Ok(With(c.body, "monthly_aport", ComputedAport)), server |-> server]
    [] c.op = "create" ->
         [resp |-> Ok([goal_id |-> [id |-> KnownId]]), server |-> server]

\* Other answers the screens must cope with: error statuses, bodies that are
\* not JSON, and JSON of another shape.  None changes what the API stores.
Deviations(c) ==
  CASE c.op = "GET" -> {NotOk(Null), Ok(Array(<<>>)), Ok(Null), Garbled(TRUE)}
    [] c.op \in {"DELETE", "finalize", "reopen"} -> {NotOk(Null)}
    [] c.op = "define" ->
         {NotOk(Null), Garbled(TRUE), Ok(c.body), Ok(With(c.body, "monthly_aport", Num(0)))}
    [] c.op = "create" ->
         {NotOk([message |-> Text("Meta invalida")]), NotOk([message |-> Str(<<>>)]),
          NotOk(<<>>), NotOk(Null), Garbled(FALSE), Garbled(TRUE), Ok(<<>>)}

(***************************************************************************)
(* Initial states                                                          *)
(***************************************************************************)

\* GoalDetailScreen as constructed from route.params p.
DetailMounted(p) ==
  /\ mounted = "GoalDetail"
  /\ route = "GoalDetail"
  /\ params = p
  /\ goalData = Or(p.updatedGoalData, Null)
  /\ loading = ~Truthy(p.updatedGoalData)
  /\ calls = <<>>
  /\ faults = FALSE
  /\ focusEvents = 0
  /\ rendered = <<>>

\* GoalDefineScreen as constructed from route.params p (the draft).
DefineMounted(p) ==
  /\ mounted = "GoalDefine"
  /\ route = "GoalDefine"
  /\ params = p
  /\ goalData = p
  /\ loading = TRUE
  /\ calls = <<>>
  /\ faults = FALSE
  /\ focusEvents = 0
  /\ rendered = <<>>

\* The values a draft's monthly_aport is tried with; undefined stands for a
\* draft without the key.
AportValues == {Undefined, Null, NaN, Num(0), Num(250 * Scale), Str(<<>>), Str(<<"2", "5", "0">>)}

\* The drafts GoalCreate hands to GoalDefineScreen.
Drafts ==
  {IF a = Undefined THEN [name |-> Text("Casa"), patrimony |-> p]
   ELSE [name |-> Text("Casa"), patrimony |-> p, monthly_aport |-> a] :
     a \in AportValues, p \in {Str(<<"9", "0", "0">>), Num(900 * Scale)}}

\* The goal starts in progress; finalizeGoal and reopenGoal move it.
DetailInit ==
  /\ server = [exists |-> TRUE, status |-> FALSE]
  /\ \E id \in GoalIds, supplied \in BOOLEAN :
       DetailMounted([goalId |-> id,
                      updatedGoalData |-> IF supplied THEN GoalOf(id, server.status)
                                          ELSE Undefined])

DefineInit ==
  /\ server = [exists |-> TRUE, status |-> FALSE]
  /\ \E draft \in Drafts : DefineMounted(draft)

Init == DetailInit \/ DefineInit

(***************************************************************************)
(* Actions                                                                 *)
(***************************************************************************)

\* What the user can touch: the mounted screen is shown, past its loading
\* and error returns.
Rendered == mounted = route /\ ~loading /\ Truthy(goalData)

\* Whether the behaviour may start another operation.
CanStart == Cardinality({i \in DOMAIN calls : calls[i].parent = 0}) < MaxOps

\* Focus without the test of updatedGoalData.
FocusAlwaysFetches ==
  /\ mounted = "GoalDetail" /\ route = "GoalDetail"
  /\ focusEvents < MaxFocus
  /\ focusEvents' = focusEvents + 1
  /\ CanStart /\ Becomes(fetchGoalData(Now, "focus", 0))
  /\ UNCHANGED <<mounted, params, server, faults, rendered>>

\* useFocusEffect: the screen gains focus; fetch unless a copy was supplied.
Focus ==
  /\ mounted = "GoalDetail" /\ route = "GoalDetail"
  /\ focusEvents < MaxFocus
  /\ focusEvents' = focusEvents + 1
  /\ IF ~Truthy(params.updatedGoalData)
     THEN CanStart /\ Becomes(fetchGoalData(Now, "focus", 0))
     ELSE Becomes(Now)
  /\ UNCHANGED <<mounted, params, server, faults, rendered>>

\* Header onRefresh.
Refresh ==
  /\ mounted = "GoalDetail" /\ Rendered /\ CanStart
  /\ Becomes(fetchGoalData(Now, "refresh", 0))
  /\ UNCHANGED <<mounted, params, server, faults, focusEvents, rendered>>

\* The delete button.
deleteGoal ==
  /\ mounted = "GoalDetail" /\ Rendered /\ CanStart
  /\ Becomes(Mutate(Now, "DELETE"))
  /\ UNCHANGED <<mounted, params, server, faults, focusEvents, rendered>>

\* The finalize button.
finalizeGoal ==
  /\ mounted = "GoalDetail" /\ Rendered /\ CanStart
  /\ Becomes(Mutate(Now, "finalize"))
  /\ UNCHANGED <<mounted, params, server, faults, focusEvents, rendered>>

\* The reopen button.
reopenGoal ==
  /\ mounted = "GoalDetail" /\ Rendered /\ CanStart
  /\ Becomes(Mutate(Now, "reopen"))
  /\ UNCHANGED <<mounted, params, server, faults, focusEvents, rendered>>

\* useEffect of GoalDefineScreen, run once after the first render.
DefineMount ==
  /\ mounted = "GoalDefine" /\ calls = <<>>
  /\ Becomes(defineEffect(Now))
  /\ UNCHANGED <<mounted, params, server, faults, focusEvents, rendered>>

\* The "Criar Meta" button.
CreatePressed ==
  /\ mounted = "GoalDefine" /\ Rendered /\ CanStart
  /\ Becomes(handleCreateGoal(Now))
  /\ UNCHANGED <<mounted, params, server, faults, focusEvents, rendered>>

\* The "Reescrever" button: navigation.navigate("GoalCreate", goalData).
handleRewriteGoal ==
  /\ mounted = "GoalDefine" /\ Rendered
  /\ route' = "GoalCreate"
  /\ UNCHANGED <<mounted, params, goalData, loading, calls, server, faults, focusEvents, rendered>>

\* The API handles the request of operation i.
Serve(i) ==
  /\ i \in DOMAIN calls
  /\ calls[i].pc = "fetch" /\ calls[i].net = "sent"
  /\ \/ /\ calls' = [calls EXCEPT ![i].net = "answered",
                                  ![i].resp = Honoured(calls[i]).resp]
        /\ server' = Honoured(calls[i]).server
        /\ faults' = faults
     \/ /\ \E r \in Deviations(calls[i]) :
             calls' = [calls EXCEPT ![i].net = "answered", ![i].resp = r]
        /\ server' = server
        /\ faults' = TRUE
  /\ UNCHANGED <<mounted, route, params, goalData, loading, focusEvents, rendered>>

\* The response reaches the app: fetch() resolves and operation i resumes.
Resolve(i) ==
  /\ i \in DOMAIN calls
  /\ calls[i].pc = "fetch" /\ calls[i].net = "answered"
  /\ Becomes(Response(Now, i))
  /\ UNCHANGED <<mounted, params, server, faults, focusEvents, rendered>>

\* The body has been read: response.text() or .json() settles and operation
\* i resumes.
BodyRead(i) ==
  /\ i \in DOMAIN calls
  /\ calls[i].pc \in {"text", "json"}
  /\ Becomes(Body(Now, i))
  /\ UNCHANGED <<mounted, params, server, faults, focusEvents, rendered>>

\* The transport fails (request lost, response lost, connection dropped
\* while the body is read): the pending promise rejects.
Reject(i) ==
  /\ i \in DOMAIN calls
  /\ calls[i].pc # "done"
  /\ Becomes(Rejected(Now, i))
  /\ faults' = TRUE
  /\ UNCHANGED <<mounted, params, server, focusEvents, rendered>>

Next ==
  \/ Focus
  \/ Refresh
  \/ deleteGoal
  \/ finalizeGoal
  \/ reopenGoal
  \/ DefineMount
  \/ CreatePressed
  \/ handleRewriteGoal
  \/ \E i \in DOMAIN calls : Serve(i)
  \/ \E i \in DOMAIN calls : Resolve(i)
  \/ \E i \in DOMAIN calls : BodyRead(i)
  \/ \E i \in DOMAIN calls : Reject(i)

Spec == Init /\ [][Next]_vars

\* A step that settles the pending promise of operation i.
Settle(i) == Serve(i) \/ Resolve(i) \/ BodyRead(i) \/ Reject(i)

\* Pending promises settle: the transport answers or gives up, and the event
\* loop runs the continuation of a settled promise.
FairSpec == Spec /\ WF_vars(\E i \in DOMAIN calls : Settle(i))

(***************************************************************************)
(* Rendering as a specification of its own: a screen holding a payload,    *)
(* and the render of that payload.                                         *)
(***************************************************************************)

\* Most fields of a payload that depart from the well-formed goal.
MaxOdd == 2

\* A goal as the Goal interface declares it.
WellFormed ==
  [id |-> KnownId, name |-> Text("Casa"),
   patrimony |-> Str(<<"1", "2", "3", "4", ".", "5">>),
   my_patrimony |-> Str(<<"1", "0", "0">>),
   monthly_aport |-> Num(250 * Scale),
   dividends |-> Str(<<"0", ".", "5">>),
   rate |-> Str(<<"0", ".", "0", "8">>),
   status |-> Bool(FALSE), time_desired |-> Num(7 * Scale)]

\* The values a field is tried with; undefined stands for a missing key.
FieldValues ==
  {Undefined, Null, NaN, Num(0), Num(1234500),
   Str(<<>>), Str(<<"a", "b", "c">>), Str(<<"1", "2", "a", "b", "c">>),
   Str(<<"1", "2", "3", "4", ".", "5">>)}

VariedFields == CurrencyFields \cup RatioFields

\* The goal g with the fields of F replaced as val says.
Override(g, F, val) ==
  [k \in DOMAIN g \ {f \in F : val[f] = Undefined} |-> IF k \in F THEN val[k] ELSE g[k]]

Payloads ==
  UNION {{Override(WellFormed, F, val) : val \in [F -> FieldValues]} :
           F \in {G \in SUBSET VariedFields : Cardinality(G) <= MaxOdd}}

\* GoalDefineScreen once its define effect has stored payload.
DefineShowing(draft, payload) ==
  LET s0 == [calls |-> <<>>, goalData |-> draft, loading |-> TRUE, route |-> "GoalDefine"]
      s1 == Fetch(s0, "define", Null, Stringify(draft), "mount", 0)
      s2 == [s1 EXCEPT !.calls[1].net = "answered", !.calls[1].resp = Ok(payload)]
      s3 == defineBody(defineResponse(s2, 1), 1)
  IN  /\ mounted = "GoalDefine"
      /\ params = draft
      /\ calls = s3.calls
      /\ goalData = s3.goalData
      /\ loading = s3.loading
      /\ route = s3.route
      /\ faults = TRUE
      /\ focusEvents = 0
      /\ rendered = <<>>

FormatInit ==
  /\ server = [exists |-> TRUE, status |-> FALSE]
  /\ \E payload \in Payloads :
       \/ DetailMounted([goalId |-> KnownId, updatedGoalData |-> payload])
       \/ DefineShowing([name |-> Text("Casa")], payload)

\* The render of GoalDetailScreen, past the loading and error returns.
RenderDetail ==
  /\ mounted = "GoalDetail" /\ Rendered
  /\ rendered' = DetailRender(goalData)
  /\ UNCHANGED <<mounted, route, params, goalData, loading, calls, server, faults, focusEvents>>

\* The render of GoalDefineScreen, past the loading return.
RenderDefine ==
  /\ mounted = "GoalDefine" /\ Rendered
  /\ rendered' = DefineRender(goalData)
  /\ UNCHANGED <<mounted, route, params, goalData, loading, calls, server, faults, focusEvents>>

FormatNext == RenderDetail \/ RenderDefine

FormatSpec == FormatInit /\ [][FormatNext]_vars
(***************************************************************************)
(* Properties                                                              *)
(***************************************************************************)

\* C1: the step that ends an invocation of fetchGoalData (success,
\* non-success status, transport failure, or an exception while the body is
\* parsed) leaves loading false, and no invocation stays pending for ever:
\* again and again every fetchGoalData started so far has ended.
C1_LoadingClearedLast ==
  /\ [][\A i \in DOMAIN calls :
          (calls[i].op = "GET" /\ calls[i].pc # "done" /\ calls'[i].pc = "done")
             => loading' = FALSE]_vars
  /\ []<>(\A i \in DOMAIN calls : calls[i].op = "GET" => calls[i].pc = "done")

\* A fetchGoalData that failed has ended with loading false.
C1_Witness ==
  \E i \in DOMAIN calls :
    calls[i].op = "GET" /\ calls[i].pc = "done" /\ calls[i].result = "failed" /\ ~loading

\* C2: while any request of the mounted screen is in flight, its loading
\* flag is true.
C2_LoadingWhileInFlight ==
  \A i \in DOMAIN calls : calls[i].pc # "done" => loading

\* The re-fetches finalizeGoal or reopenGoal call i has started.
Refetches(i) == {j \in DOMAIN calls : calls[j].op = "GET" /\ calls[j].parent = i}

SuccessAlerts(i) ==
  {k \in DOMAIN calls[i].alerts : calls[i].alerts[k].title = Text("Sucesso")}

\* Operation i has resumed with a response of success status.
SawSuccess(i) == calls[i].pc # "fetch" /\ calls[i].resp.ok

\* C3: a finalizeGoal or reopenGoal whose POST returned a success status has
\* started exactly one GET for goalId and raised exactly one success alert;
\* any other has started no re-fetch and raised no success alert.
C3_OneRefetchOneAlert ==
  \A i \in DOMAIN calls :
    calls[i].op \in {"finalize", "reopen"} =>
      IF SawSuccess(i)
      THEN /\ Cardinality(Refetches(i)) = 1
           /\ \A j \in Refetches(i) : calls[j].id = params.goalId
           /\ Cardinality(SuccessAlerts(i)) = 1
           /\ calls[i].alerts = <<Alert(Text("Sucesso"), SuccessMessage(calls[i].op))>>
      ELSE Refetches(i) = {} /\ SuccessAlerts(i) = {}

\* One finalize or reopen has succeeded and another has failed.
C3_Witness ==
  \E i, j \in DOMAIN calls :
    /\ calls[i].op \in {"finalize", "reopen"} /\ SawSuccess(i)
    /\ calls[j].op \in {"finalize", "reopen"} /\ calls[j].pc = "done" /\ ~SawSuccess(j)

\* C4: after finalizeGoal and then reopenGoal have both succeeded against an
\* API and a transport that kept the contract, and both re-fetches have
\* resolved, the goal shown has status false.
C4_RoundTripRestoresStatus ==
  ( /\ Len(calls) = 4
    /\ ~faults
    /\ calls[1].op = "finalize" /\ calls[2].parent = 1
    /\ calls[3].op = "reopen" /\ calls[4].parent = 3
    /\ \A i \in DOMAIN calls : calls[i].pc = "done" /\ calls[i].result = "ok" )
  => Get(goalData, "status") = Bool(FALSE)

\* C5: a deleteGoal that has ended without a success status (non-success
\* status or transport failure) has raised "Falha ao deletar a meta." and has
\* not navigated; only a deleteGoal that saw a success status navigates to
\* "Metas", so the goal list is shown only once the API has removed the goal.
C5_DeleteFailureStays ==
  /\ \A i \in DOMAIN calls :
       calls[i].op = "DELETE" =>
         /\ (calls[i].pc = "done" /\ ~SawSuccess(i)) =>
              calls[i].alerts = <<Alert(Text("Erro"), Text("Falha ao deletar a meta."))>>
         /\ ~SawSuccess(i) => calls[i].navs = <<>>
         /\ \A k \in DOMAIN calls[i].navs : calls[i].navs[k].to = "Metas"
  /\ route = "Metas" => ~server.exists

\* A deleteGoal has ended on a non-success status and the screen stays.
C5_Witness ==
  \E i \in DOMAIN calls :
    /\ calls[i].op = "DELETE" /\ calls[i].pc = "done" /\ ~SawSuccess(i)
    /\ route = "GoalDetail"

\* C6: the body handleCreateGoal sends never holds monthly_aport when the
\* draft holds that key, and holds every other key of the draft unchanged.
C6_AportNeverSent ==
  \A i \in DOMAIN calls :
    (calls[i].op = "create" /\ "monthly_aport" \in DOMAIN goalData) =>
      /\ "monthly_aport" \notin DOMAIN calls[i].body
      /\ \A k \in DOMAIN goalData \ {"monthly_aport"} :
           k \in DOMAIN calls[i].body /\ calls[i].body[k] = goalData[k]

\* A value that is absent or that parseFloat does not read as a number.
NonNumeric(v) == v.t \in {"undefined", "null", "NaN"} \/ (v.t = "string" /\ isNaN(parseFloat(v)))

\* C7: no currency field throws when rendered, and one that is absent or
\* non-numeric is shown as "R$0.00".
C7_CurrencyFallback ==
  \A f \in CurrencyFields \cap DOMAIN rendered :
    /\ ~rendered[f].threw
    /\ NonNumeric(Get(goalData, f)) => rendered[f] = Shown(ZeroCurrency)

\* C8: rate and dividends, when non-numeric, are shown as "N/A" (before the
\* percent sign GoalDefineScreen appends to rate) and do not throw.
C8_RatioNotAvailable ==
  \A f \in RatioFields \cap DOMAIN rendered :
    NonNumeric(Get(goalData, f)) =>
      /\ ~rendered[f].threw
      /\ rendered[f].text \in {NotAvailable, NotAvailable \o <<"%">>}

GenericCreateFailure == {Text("Failed to create goal"), Text("Falha ao criar a meta.")}

\* C9: when the POST of handleCreateGoal returned a non-success status and
\* its body has been read, the one alert raised carries the body's message
\* when it has one and a generic message otherwise (no message, an empty
\* one, a body that is not JSON), and nothing is navigated to.
C9_CreateFailureAlert ==
  [][\A i \in DOMAIN calls :
       (calls[i].op = "create" /\ calls[i].pc = "json" /\ ~calls[i].resp.ok /\ BodyRead(i)) =>
          LET d   == calls[i].resp.data
              msg == IF calls[i].resp.json /\ CanRead(d) THEN Get(d, "message") ELSE Undefined
          IN  /\ calls'[i].pc = "done"
              /\ Len(calls'[i].alerts) = 1
              /\ calls'[i].alerts[1].message \in
                   (IF Truthy(msg) THEN {msg} ELSE GenericCreateFailure)
              /\ calls'[i].navs = <<>>
              /\ route' = route]_vars

FocusFetches == {i \in DOMAIN calls : calls[i].origin = "focus"}

\* C10: on GoalDetailScreen with a supplied copy, no focus event has issued
\* a GET, and until an operation is started loading is false and the goal
\* shown is the copy; without a copy every focus event has issued exactly
\* one GET for goalId.
C10_FocusFetchUnlessSupplied ==
  mounted = "GoalDetail" =>
    IF Truthy(params.updatedGoalData)
    THEN /\ FocusFetches = {}
         /\ calls = <<>> => (~loading /\ goalData = params.updatedGoalData)
    ELSE /\ Cardinality(FocusFetches) = focusEvents
         /\ \A i \in FocusFetches : calls[i].op = "GET" /\ calls[i].id = params.goalId

\* Two focus events on a screen that was given a copy.
C10_Witness ==
  /\ mounted = "GoalDetail" /\ Truthy(params.updatedGoalData)
  /\ focusEvents = 2 /\ calls = <<>>

\* The response of fetchGoalData i arrives: the call resumes for the last
\* time, with the body it awaited or with the rejection of its request.
Arrives(i) == calls[i].op = "GET" /\ calls[i].pc # "done" /\ calls'[i].pc = "done"

\* The arrival is that of a successful response: success status, a body that
\* parsed, an element to read.
Delivered(i) ==
  /\ BodyRead(i) /\ calls[i].pc = "json"
  /\ calls[i].resp.ok /\ calls[i].resp.json /\ CanRead(calls[i].resp.data)

\* Two fetchGoalData calls, the second started while the first was in flight
\* or not, have both returned.
BothResolved ==
  /\ mounted = "GoalDetail"
  /\ Cardinality({i \in DOMAIN calls : calls[i].op = "GET"}) >= 2
  /\ \A i \in DOMAIN calls : calls[i].pc = "done"

\* C11: whatever the order in which the responses of overlapping
\* fetchGoalData calls arrive, each arrival of a successful response overwrites
\* goalData with the first element of that response, so the one that arrives
\* last is the one shown; the arrival of a failed response leaves goalData as
\* it was; each arrival leaves loading false, and loading is false once all
\* have returned.
C11_LastArrivalWins ==
  /\ [][\A i \in DOMAIN calls :
          Arrives(i) =>
            /\ loading' = FALSE
            /\ goalData' = IF Delivered(i) THEN First(calls[i].resp.data) ELSE goalData]_vars
  /\ [](BothResolved => ~loading)

\* The re-fetch of finalizeGoal was in flight when the re-fetch of reopenGoal
\* was started, API and transport kept the contract, and the first re-fetch
\* arrived last: its goal, finalized, is the one shown.
C11_Witness ==
  /\ BothResolved /\ ~faults
  /\ \E i, j \in DOMAIN calls :
       /\ i < j
       /\ calls[i].op = "GET" /\ calls[i].result = "ok"
       /\ calls[j].op = "GET" /\ calls[j].result = "ok"
  /\ ~loading
  /\ Get(goalData, "status") = Bool(TRUE) /\ ~server.status

\* The initial fetchGoalData of a screen that was given no copy is the only
\* operation so far, and it has failed.
InitialFetchFailed ==
  /\ mounted = "GoalDetail" /\ ~Truthy(params.updatedGoalData)
  /\ Len(calls) = 1
  /\ calls[1].op = "GET" /\ calls[1].pc = "done"
  /\ calls[1].alerts = <<Alert(Text("Erro"), FailMessage("GET"))>>

\* C12: on GoalDetailScreen every step that changes goalData is the arrival
\* of a successful response of fetchGoalData, which stores its first element:
\* no step of deleteGoal, finalizeGoal or reopenGoal and no failure (a
\* non-success status, a transport error, an unreadable body) changes it;
\* and after a failed initial fetch without a supplied copy loading is false
\* and goalData is null.
C12_OnlyFetchWritesGoalData ==
  /\ [][(mounted = "GoalDetail" /\ goalData' # goalData) =>
          \E i \in DOMAIN calls :
            /\ calls[i].op = "GET" /\ Delivered(i)
            /\ goalData' = First(calls[i].resp.data)]_vars
  /\ [](InitialFetchFailed => (~loading /\ goalData = Null))

\* The initial fetch was answered with a non-success status and the screen
\* is left in the static error state.
C12_Witness ==
  /\ InitialFetchFailed /\ ~calls[1].resp.ok /\ calls[1].result = "failed"
  /\ ~loading /\ goalData = Null /\ ~Rendered
====
